---- MODULE Spec2Model ----
(***************************************************************************)
(* State-machine model of the data grid's EventManager                    *)
(* (src/js/src/dataGrid/event/EventManager.ts).                            *)
(*                                                                         *)
(* The EventManager is a dispatcher: every handler reads the event, asks   *)
(* the host grid where the pointer is, and calls the controllers           *)
(* (columnPosition, dataGridResize, cellSelectionManager,                  *)
(* cellFocusManager, cellTooltipManager).  The controllers are not part of *)
(* EventManager.ts; their state slices are modelled from the design        *)
(* document and are marked so in the model map.                            *)
(*                                                                         *)
(* A handler is an operator from (state record, event) to state record,    *)
(* written statement by statement after the source; an action applies one  *)
(* handler to the current state.  `calls` is the list of observable calls  *)
(* (signals emitted, scroll requests, sort toggles, ...) made by the last   *)
(* handler, `raised` the exception it ended with and `op` its name.        *)
(***************************************************************************)
EXTENDS Integers, Sequences, FiniteSets, TLC

VARIABLES
    disposed,           \* EventManager._disposed
    listeners,          \* DOM listeners currently registered: <<node, type, fn>>
    timers,             \* pending timer callbacks, in scheduling order
    cellHoverControl,   \* EventManager.cellHoverControl: [null, timerId]
    grabbedCellData,    \* columnPosition: header cell being dragged
    dropCellData,       \* columnPosition.dropCellData
    resizing,           \* dataGridResize: a resize gesture is active
    cursor,             \* dataGridResize: cursor style
    focused,            \* grid.focused
    startCellData,      \* cellSelectionManager.startCellData (anchor)
    endCellData,        \* cellSelectionManager.endCellData
    focusedCellData,    \* cellFocusManager.focusedCellData
    op,                 \* last handler that ran
    calls,              \* observable calls made by the last handler
    raised              \* exception thrown by the last handler, or "none"

vars == <<disposed, listeners, timers, cellHoverControl, grabbedCellData,
          dropCellData, resizing, cursor, focused, startCellData, endCellData,
          focusedCellData, op, calls, raised>>

----------------------------------------------------------------------------
(* Bounds of the model *)

NumBodyRows == 2
NumBodyColumns == 2
MaxDelta == 3
MaxDeltaMode == 3

(* Program constant *)
COLUMN_RESIZE_AREA_WIDTH == 4

(* Geometry of the host grid, read by the handlers *)
RectLeft == 1
RectTop == 1
ColumnWidth == 6
RowHeight == 20
PageWidth == 300
PageHeight == 500
ResizeZone == 2

RowHeaderSections == <<ColumnWidth>>
HeaderWidth == ColumnWidth
HeaderHeight == RowHeight
BodyWidth == NumBodyColumns * ColumnWidth
BodyHeight == NumBodyRows * RowHeight
ViewWidth == HeaderWidth + BodyWidth
ViewHeight == HeaderHeight + BodyHeight

----------------------------------------------------------------------------
(* Cell data *)

NullCell == [region |-> "null", row |-> 0, column |-> 0, type |-> "null"]

NullData ==
    [region |-> "null", row |-> 0, column |-> 0, type |-> "null",
     delta |-> 0, width |-> 0]

\* The identity of a cell a controller keeps (geometry dropped).
Ident(data) ==
    [region |-> data.region, row |-> data.row, column |-> data.column,
     type |-> data.type]

\* grid.getCellData(clientX, clientY): the cell under the pointer, or null.
getCellData(clientX, clientY) ==
    LET x == clientX - RectLeft
        y == clientY - RectTop
    IN  IF x < 0 \/ y < 0 \/ x >= ViewWidth \/ y >= ViewHeight
        THEN NullData
        ELSE LET inRowHeader == x < HeaderWidth
                 inHeader == y < HeaderHeight
             IN  [region |-> IF inHeader
                             THEN (IF inRowHeader THEN "corner-header"
                                                  ELSE "column-header")
                             ELSE (IF inRowHeader THEN "row-header" ELSE "body"),
                  row |-> IF inHeader THEN 0 ELSE (y - HeaderHeight) \div RowHeight,
                  column |-> IF inRowHeader THEN 0
                             ELSE (x - HeaderWidth) \div ColumnWidth,
                  type |-> IF inRowHeader THEN "index" ELSE "body",
                  delta |-> IF inRowHeader THEN x
                            ELSE (x - HeaderWidth) % ColumnWidth,
                  width |-> ColumnWidth]

IsNull(data) == data.region = "null"

----------------------------------------------------------------------------
(* Events *)

\* Client x coordinates: the first and the last pixel of every column, one
\* pixel in the resize zone right of the viewport, one far outside.
XCoords ==
    { RectLeft + c * ColumnWidth : c \in 0..NumBodyColumns }
    \cup { RectLeft + c * ColumnWidth + (ColumnWidth - 1) : c \in 0..NumBodyColumns }
    \cup { RectLeft + ViewWidth + 1, RectLeft + ViewWidth + ResizeZone + 1 }

\* Pointer positions: the header row (and right of it), the first pixel of
\* every body cell, and the strip just below the viewport.
HeaderPoints == { <<x, RectTop>> : x \in XCoords }

BodyPoints ==
    { <<RectLeft + c * ColumnWidth, RectTop + HeaderHeight + r * RowHeight>> :
        c \in 0..NumBodyColumns, r \in 0..(NumBodyRows - 1) }

BorderPoints == { <<RectLeft, RectTop + ViewHeight>> }

Targets == {"canvas", "other"}

MouseEvent(x, y, buttons, button, target, shiftKey, inside) ==
    [clientX |-> x, clientY |-> y, buttons |-> buttons, button |-> button,
     target |-> target, shiftKey |-> shiftKey, insideGrid |-> inside]

KeyEvent(code, shiftKey) == [code |-> code, shiftKey |-> shiftKey]

WheelEvent(dx, dy, mode) == [deltaX |-> dx, deltaY |-> dy, deltaMode |-> mode]

\* What a handler reads from the store and the cell manager while it runs:
\* the feature flags, and whether the cell manager's hovered cell is the cell
\* under the pointer (else it has none).
Store(autoLink, hasDoubleClickAction, doubleClickTag, hoveredHere) ==
    [autoLinkTableLinks |-> autoLink, hoveredHere |-> hoveredHere,
     hasDoubleClickAction |-> hasDoubleClickAction,
     doubleClickTag |-> doubleClickTag]

\* rowManager.rows: the rendered rows with their logical index (the grid is
\* shown sorted in descending order of the logical index).
rowManagerRows == [r \in 0..(NumBodyRows - 1) |-> [index |-> NumBodyRows - 1 - r]]

----------------------------------------------------------------------------
(* The state the handlers work on, as one record *)

Cur ==
    [disposed |-> disposed, listeners |-> listeners,
     grabbed |-> grabbedCellData, drop |-> dropCellData, resizing |-> resizing,
     cursor |-> cursor, focused |-> focused, start |-> startCellData,
     end |-> endCellData, focusCell |-> focusedCellData,
     timers |-> timers,
     hoverCtl |-> cellHoverControl, calls |-> <<>>, raised |-> "none",
     dispatched |-> <<>>]

Log(s, c) == [s EXCEPT !.calls = Append(@, c)]

\* A handler call whose own effect may be empty is made: a private handler
\* of the EventManager, or a reaction of the selection manager.
Dispatch(s, handler) == [s EXCEPT !.dispatched = Append(@, handler)]

Raise(s, what) == [s EXCEPT !.raised = what]

\* An entry of `timers` is a timer that still runs ("hover": the hover
\* timer has a delay) or a callback that waits in the task queue
\* ("hoverDue": the hover timer has run out; "clearReferences": scheduled
\* without a delay).  Callbacks in the task queue run in the order in which
\* they entered it.
TimerOf(t) == IF t = "hoverDue" THEN "hover" ELSE t

IsDue(t) == t # "hover"

RemoveTimer(ts, kind) == SelectSeq(ts, LAMBDA t : TimerOf(t) # kind)

----------------------------------------------------------------------------
(* Controllers the EventManager drives *)

\* columnPosition
isDragging(s) == ~IsNull(s.grabbed)

startDragging(s, data) == [s EXCEPT !.grabbed = Ident(data), !.drop = NullCell]

stopDragging(s) == [s EXCEPT !.grabbed = NullCell, !.drop = NullCell]

moveDraggedHeader(s, event) ==
    LET data == getCellData(event.clientX, event.clientY)
    IN  IF isDragging(s) /\ data.region \in {"column-header", "corner-header"}
        THEN [s EXCEPT !.drop = Ident(data)]
        ELSE s

dropColumn(s) ==
    IF IsNull(s.grabbed) \/ IsNull(s.drop)
    THEN stopDragging(s)
    ELSE stopDragging(Log(s, <<"moveColumn", s.grabbed.column, s.drop.column>>))

\* dataGridResize
isResizing(s) == s.resizing

shouldResizeDataGrid(event) ==
    LET right == event.clientX - (RectLeft + ViewWidth)
        bottom == event.clientY - (RectTop + ViewHeight)
    IN  \/ right >= 0 /\ right <= ResizeZone /\ bottom <= ResizeZone
        \/ bottom >= 0 /\ bottom <= ResizeZone /\ right <= ResizeZone

startResizing(s, event) == [s EXCEPT !.resizing = TRUE]

stopResizing(s) == [s EXCEPT !.resizing = FALSE]

setCursorStyle(s, style) == [s EXCEPT !.cursor = style]

setResizeMode(s, event) ==
    setCursorStyle(s, IF shouldResizeDataGrid(event) THEN "resize" ELSE "auto")

\* grid
setFocus(s, focus) == [s EXCEPT !.focused = focus]

\* cellFocusManager
setFocusedCell(s, data) == [s EXCEPT !.focusCell = Ident(data)]

\* cellSelectionManager
setStartCell(s, data) == [s EXCEPT !.start = Ident(data)]

setEndCell(s, data) == [s EXCEPT !.end = Ident(data)]

clearSelection(s) == [s EXCEPT !.start = NullCell, !.end = NullCell]

handleCellInteraction(s, data) == setEndCell(setFocusedCell(s, data), data)

\* cellTooltipManager
hideTooltips(s) == Log(s, <<"hideTooltips">>)

\* setTimeout / clearTimeout on the one hover timer the grid keeps
clearTimeout(s, timerId) ==
    IF timerId = 0 THEN s ELSE [s EXCEPT !.timers = RemoveTimer(@, "hover")]

\* grid.cellHovered.emit({ data, event }) and what its subscriber does: it
\* re-arms the hover timer kept in cellHoverControl.
cellHoveredEmit(s, data) ==
    LET s1 == Log(s, <<"cellHovered", IF IsNull(data) THEN "null" ELSE "data">>)
    IN  IF IsNull(data) \/ s1.hoverCtl.null
        THEN s1
        ELSE [clearTimeout(s1, s1.hoverCtl.timerId) EXCEPT
                !.timers = Append(RemoveTimer(s1.timers, "hover"), "hover"),
                !.hoverCtl = [null |-> FALSE, timerId |-> 1]]

----------------------------------------------------------------------------

(* EventManager: spatial tests *)

isOverHeader(event) ==
    LET x == event.clientX - RectLeft
        y == event.clientY - RectTop
    IN  x < BodyWidth + Len(RowHeaderSections) /\ y < HeaderHeight

isHeaderClickedAnyTarget(event) == isOverHeader(event) /\ event.button = 0

isHeaderClicked(event) ==
    isOverHeader(event) /\ event.button = 0 /\ event.target = "canvas"

\* EventHelpers.isOutsideNode(event, grid.viewport.node)
isOutsideViewport(event) ==
    LET x == event.clientX - RectLeft
        y == event.clientY - RectTop
    IN  x < 0 \/ y < 0 \/ x >= ViewWidth \/ y >= ViewHeight

\* EventHelpers.isInsideGridNode(event, grid.node)
isNodeInsideGrid(event) == event.insideGrid

getRowIndexRendered(renderedRowIndex) == renderedRowIndex

getRowIndex(renderedRowIndex) == rowManagerRows[renderedRowIndex].index

\* DataGridHelpers.retrieveUrl(value): the cells of the first body column
\* hold links.
retrieveUrl(data) == data.region = "body" /\ data.column = 0

----------------------------------------------------------------------------
(* cellSelectionManager: reactions to the pointer *)

selectionHandleMouseDown(s, event) ==
    LET data == getCellData(event.clientX, event.clientY)
    IN  IF isOverHeader(event) \/ IsNull(data)
        THEN s
        ELSE IF event.shiftKey /\ ~IsNull(s.start)
             THEN setEndCell(s, data)
             ELSE setStartCell(clearSelection(s), data)

selectionHandleMouseUp(s, event) ==
    LET data == getCellData(event.clientX, event.clientY)
    IN  IF isOverHeader(event) \/ isDragging(s) \/ IsNull(data)
        THEN s
        ELSE handleCellInteraction(s, data)

handleBodyCellHover(s, event) ==
    LET data == getCellData(event.clientX, event.clientY)
    IN  IF event.buttons # 1 \/ isOverHeader(event) \/ IsNull(s.start)
        THEN s
        ELSE setEndCell(s, data)

----------------------------------------------------------------------------
(* EventManager: pointer gestures *)

handleHeaderClick(s, event) ==
    IF ~isHeaderClicked(event) \/ ~IsNull(s.drop)
    THEN s
    ELSE LET data == getCellData(event.clientX, event.clientY)
         IN  IF IsNull(data)
             THEN s
             ELSE Log(s, <<"toggleSort", data.region, data.column>>)

handleBodyClick(s, event, store) ==
    IF isOverHeader(event) \/ isDragging(s)
    THEN s
    ELSE LET cellData == getCellData(event.clientX, event.clientY)
             hovered == IF store.hoveredHere THEN Ident(cellData) ELSE NullCell
         IN  IF IsNull(cellData) \/ IsNull(hovered) \/ Ident(cellData) # hovered
             THEN s
             ELSE IF ~store.autoLinkTableLinks
                  THEN s
                  ELSE IF retrieveUrl(hovered)
                       THEN Log(s, <<"window.open", hovered.row, hovered.column>>)
                       ELSE s

handleStartDraggingNoBand(s, event) ==
    LET data == getCellData(event.clientX, event.clientY)
    IN  IF \/ IsNull(data)
           \/ ~isHeaderClicked(event)
           \/ (data.region = "corner-header" /\ data.column = 0)
        THEN s
        ELSE Log(startDragging(s, data),
                 <<"startDragging", data.region, data.column>>)

handleStartDragging(s, event) ==
    LET data == getCellData(event.clientX, event.clientY)
    IN  IF \/ IsNull(data)
           \/ ~isHeaderClicked(event)
           \/ (data.region = "corner-header" /\ data.column = 0)
           \/ data.width - data.delta < COLUMN_RESIZE_AREA_WIDTH
        THEN s
        ELSE Log(startDragging(s, data),
                 <<"startDragging", data.region, data.column>>)

onMouseUp(s, event, store) ==
    IF isResizing(s)
    THEN stopResizing(s)
    ELSE dropColumn(
           handleBodyClick(
             handleHeaderClick(selectionHandleMouseUp(s, event), event),
             event, store))

onMouseHover(s, event) ==
    LET data == getCellData(event.clientX, event.clientY)
    IN  IF IsNull(data)
        THEN s
        ELSE handleBodyCellHover(cellHoveredEmit(s, data), event)

onMouseMoveUnguarded(s, event) ==
    LET s1 == IF event.buttons # 1 THEN stopDragging(s) ELSE s
        s2 == IF ~isResizing(s1) THEN setResizeMode(s1, event) ELSE s1
    IN  IF isResizing(s2) \/ isOutsideViewport(event)
        THEN s2
        ELSE onMouseHover(moveDraggedHeader(s2, event), event)

onMouseMove(s, event) ==
    IF isResizing(s)
    THEN s
    ELSE LET s1 == IF event.buttons # 1 THEN stopDragging(s) ELSE s
             s2 == IF ~isResizing(s1) THEN setResizeMode(s1, event) ELSE s1
         IN  IF isResizing(s2) \/ isOutsideViewport(event)
             THEN s2
             ELSE onMouseHover(moveDraggedHeader(s2, event), event)

onMouseDownSelectsFirst(s, event) ==
    IF event.buttons # 1
    THEN s
    ELSE LET s1 == IF ~s.focused THEN setFocus(s, TRUE) ELSE s
             s2 == selectionHandleMouseDown(
                       Dispatch(s1, "cellSelectionManager.handleMouseDown"), event)
         IN  IF ~isHeaderClicked(event) /\ shouldResizeDataGrid(event)
             THEN startResizing(s2, event)
             ELSE IF isOutsideViewport(event)
                  THEN s2
                  ELSE handleStartDragging(s2, event)

onMouseDown(s, event) ==
    IF event.buttons # 1
    THEN s
    ELSE LET s1 == IF ~s.focused THEN setFocus(s, TRUE) ELSE s
         IN  IF ~isHeaderClicked(event) /\ shouldResizeDataGrid(event)
             THEN startResizing(s1, event)
             ELSE IF isOutsideViewport(event)
                  THEN s1
                  ELSE handleStartDragging(
                           selectionHandleMouseDown(
                               Dispatch(s1, "cellSelectionManager.handleMouseDown"),
                               event),
                           event)

onMouseLeave(s, event) ==
    IF isNodeInsideGrid(event) \/ event.buttons # 0
    THEN s
    ELSE IF s.hoverCtl.null
         THEN Raise(s, "TypeError")
         ELSE LET s1 == clearTimeout(s, s.hoverCtl.timerId)
                  s2 == hideTooltips(s1)
                  s3 == cellHoveredEmit(s2, NullData)
                  s4 == setCursorStyle(s3, "auto")
                  s5 == stopDragging(s4)
              IN  setFocus(s5, FALSE)

onMouseDoubleClick(s, event, store) ==
    IF isOverHeader(event)
    THEN s
    ELSE LET data == getCellData(event.clientX, event.clientY)
         IN  IF IsNull(data) \/ data.type = "index"
             THEN s
             ELSE LET row == getRowIndex(data.row)
                      s1 == IF store.hasDoubleClickAction
                            THEN Log(s, <<"commSignal", "DoubleClickMessage",
                                          row, data.column>>)
                            ELSE s
                  IN  IF store.doubleClickTag
                      THEN Log(s1, <<"commSignal", "ActionDetailsMessage",
                                     "DOUBLE_CLICK", row, data.column>>)
                      ELSE s1

onWheelSwapped(s, event) ==
    LET dx == event.deltaX
        dy == event.deltaY
    IN  IF event.deltaMode = 0
        THEN Log(s, <<"scrollBy", dx, dy>>)
        ELSE IF event.deltaMode = 1
        THEN Log(s, <<"scrollBy", dx * RowHeight, dy * ColumnWidth>>)
        ELSE IF event.deltaMode = 2
        THEN Log(s, <<"scrollBy", dx * PageWidth, dy * PageHeight>>)
        ELSE Raise(s, "unreachable")

onWheelNoThrow(s, event) ==
    LET dx == event.deltaX
        dy == event.deltaY
    IN  IF event.deltaMode = 0
        THEN Log(s, <<"scrollBy", dx, dy>>)
        ELSE IF event.deltaMode = 1
        THEN Log(s, <<"scrollBy", dx * ColumnWidth, dy * RowHeight>>)
        ELSE IF event.deltaMode = 2
        THEN Log(s, <<"scrollBy", dx * PageWidth, dy * PageHeight>>)
        ELSE Log(s, <<"scrollBy", dx, dy>>)

onWheel(s, event) ==
    LET dx == event.deltaX
        dy == event.deltaY
    IN  IF event.deltaMode = 0
        THEN Log(s, <<"scrollBy", dx, dy>>)
        ELSE IF event.deltaMode = 1
        THEN Log(s, <<"scrollBy", dx * ColumnWidth, dy * RowHeight>>)
        ELSE IF event.deltaMode = 2
        THEN Log(s, <<"scrollBy", dx * PageWidth, dy * PageHeight>>)
        ELSE Raise(s, "unreachable")

----------------------------------------------------------------------------

(* EventManager: keyboard *)

Enter == 13
Escape == 27
PageUp == 33
PageDown == 34
ArrowLeft == 37
ArrowUp == 38
ArrowRight == 39
ArrowDown == 40
Digit0 == 48
Digit9 == 57
KeyB == 66
KeyH == 72
KeyU == 85

KEYBOARD_KEYS ==
    {Enter, Escape, PageUp, PageDown, ArrowLeft, ArrowUp, ArrowRight, ArrowDown,
     KeyB, KeyH, KeyU} \cup (Digit0..Digit9)

\* DataGridHelpers.getEventKeyCode(event): the code of a known key, else 0.
getEventKeyCode(event) == IF event.code \in KEYBOARD_KEYS THEN event.code ELSE 0

\* columnManager.takeColumnByCell(cell)
takeColumnByCell(data) ==
    IF IsNull(data) THEN <<>> ELSE <<data.type, data.column>>

Clamp(v, lo, hi) == IF v < lo THEN lo ELSE IF v > hi THEN hi ELSE v

LastColumn(data) == IF data.type = "index" THEN 0 ELSE NumBodyColumns - 1

\* cellFocusManager.setFocusedCellByNavigationKey(code): the neighbour of the
\* focused cell in the direction of the key, clamped at the edges.
setFocusedCellByNavigationKey(s, code) ==
    LET c == s.focusCell
        row == IF c.region \in {"body", "row-header"}
               THEN (IF code = ArrowUp THEN Clamp(c.row - 1, 0, NumBodyRows - 1)
                     ELSE IF code = ArrowDown THEN Clamp(c.row + 1, 0, NumBodyRows - 1)
                     ELSE IF code = PageUp THEN 0
                     ELSE IF code = PageDown THEN NumBodyRows - 1
                     ELSE c.row)
               ELSE c.row
        column == IF code = ArrowLeft THEN Clamp(c.column - 1, 0, LastColumn(c))
                  ELSE IF code = ArrowRight THEN Clamp(c.column + 1, 0, LastColumn(c))
                  ELSE c.column
    IN  [s EXCEPT !.focusCell = [c EXCEPT !.row = row, !.column = column]]

handleEnterKeyDownAlwaysAnchors(s, code, shiftKey, cellData) ==
    IF code # Enter \/ IsNull(cellData)
    THEN s
    ELSE Log(handleCellInteraction(setStartCell(s, cellData), cellData),
             <<"handleCellInteraction", cellData.row, cellData.column>>)

handleEnterKeyDown(s, code, shiftKey, cellData) ==
    IF code # Enter \/ IsNull(cellData)
    THEN s
    ELSE LET s1 == IF ~shiftKey \/ IsNull(s.start)
                   THEN setStartCell(s, cellData)
                   ELSE s
         IN  Log(handleCellInteraction(s1, cellData),
                 <<"handleCellInteraction", cellData.row, cellData.column>>)

handleHighlighterKeyDown(s, code, column) ==
    IF code = KeyH
    THEN (IF column # <<>> THEN Log(s, <<"toggleHighlighter", column, "heatmap">>) ELSE s)
    ELSE IF code = KeyU
    THEN (IF column # <<>> THEN Log(s, <<"toggleHighlighter", column, "uniqueEntries">>)
          ELSE s)
    ELSE IF code = KeyB
    THEN (IF column # <<>> THEN Log(s, <<"toggleDataBarsRenderer", column>>) ELSE s)
    ELSE s

handleNumKeyDown(s, code, shiftKey, column) ==
    IF code < Digit0 \/ code > Digit9
    THEN s
    ELSE LET number == code - Digit0
         IN  IF shiftKey /\ column # <<>>
             THEN Log(s, <<"setDataTypePrecision", column, number>>)
             ELSE Log(s, <<"setColumnsDataTypePrecission", number>>)

handleNavigationKeyDownStale(s, code, event) ==
    IF code \notin {ArrowLeft, ArrowRight, ArrowDown, ArrowUp, PageUp, PageDown}
    THEN s
    ELSE LET s1 == IF ~IsNull(s.focusCell)
                   THEN Log(setFocusedCellByNavigationKey(s, code),
                            <<"setFocusedCellByNavigationKey", code>>)
                   ELSE IF code = PageDown \/ code = PageUp
                        THEN Log(s, <<"scrollByPage",
                                      IF code = PageUp THEN "up" ELSE "down">>)
                        ELSE s
         IN  IF event.shiftKey
             THEN Log(setEndCell(s1, s.focusCell), <<"setEndCell">>)
             ELSE s1

handleNavigationKeyDown(s, code, event) ==
    IF code \notin {ArrowLeft, ArrowRight, ArrowDown, ArrowUp, PageUp, PageDown}
    THEN s
    ELSE LET s1 == IF ~IsNull(s.focusCell)
                   THEN Log(setFocusedCellByNavigationKey(s, code),
                            <<"setFocusedCellByNavigationKey", code>>)
                   ELSE IF code = PageDown \/ code = PageUp
                        THEN Log(s, <<"scrollByPage",
                                      IF code = PageUp THEN "up" ELSE "down">>)
                        ELSE s
         IN  IF event.shiftKey
             THEN Log(setEndCell(s1, s1.focusCell), <<"setEndCell">>)
             ELSE s1

onKeyDownReordered(s, event) ==
    LET focusedCell == s.focusCell
        column == takeColumnByCell(focusedCell)
        code == getEventKeyCode(event)
    IN  IF code = 0
        THEN s
        ELSE LET s0 == Log(Log(s, <<"stopPropagation">>), <<"preventDefault">>)
                 s1 == handleNavigationKeyDown(
                           Dispatch(s0, "handleNavigationKeyDown"), code, event)
                 s2 == handleEnterKeyDown(Dispatch(s1, "handleEnterKeyDown"),
                                          code, event.shiftKey, focusedCell)
                 s3 == handleHighlighterKeyDown(
                           Dispatch(s2, "handleHighlighterKeyDown"), code, column)
             IN  handleNumKeyDown(Dispatch(s3, "handleNumKeyDown"),
                                  code, event.shiftKey, column)

onKeyDown(s, event) ==
    LET focusedCell == s.focusCell
        column == takeColumnByCell(focusedCell)
        code == getEventKeyCode(event)
    IN  IF code = 0
        THEN s
        ELSE LET s0 == Log(Log(s, <<"stopPropagation">>), <<"preventDefault">>)
                 s1 == handleEnterKeyDown(Dispatch(s0, "handleEnterKeyDown"),
                                          code, event.shiftKey, focusedCell)
                 s2 == handleHighlighterKeyDown(
                           Dispatch(s1, "handleHighlighterKeyDown"), code, column)
                 s3 == handleNumKeyDown(Dispatch(s2, "handleNumKeyDown"),
                                        code, event.shiftKey, column)
             IN  handleNavigationKeyDown(
                     Dispatch(s3, "handleNavigationKeyDown"), code, event)

----------------------------------------------------------------------------
(* Construction, disposal, timers *)

\* The listeners the constructor registers.
ConstructorListeners ==
    { <<"grid.node", "mousemove", "handleMouseMove">>,
      <<"grid.node", "mouseout", "handleMouseLeave">>,
      <<"tableDisplayView.el", "mousedown", "handleMouseDown">> }

\* The removeEventListener calls of dispose().
DisposeRemovals ==
    { <<"grid.node", "mousemove", "handleMouseMove">>,
      <<"grid.node", "mousemove", "handleMouseLeave">>,
      <<"tableDisplayView.el", "mousedown", "handleMouseDown">> }

\* clearReferences(): schedules the nulling of cellHoverControl.
disposeUnguarded(s) ==
    [[s EXCEPT !.timers = Append(@, "clearReferences")]
        EXCEPT !.listeners = @ \ DisposeRemovals, !.disposed = TRUE]

clearReferencesNow(s) == [s EXCEPT !.hoverCtl = [null |-> TRUE, timerId |-> 0]]

clearReferences(s) == [s EXCEPT !.timers = Append(@, "clearReferences")]

dispose(s) ==
    IF s.disposed
    THEN s
    ELSE [clearReferences(s) EXCEPT !.listeners = @ \ DisposeRemovals,
                                    !.disposed = TRUE]

\* The callback clearReferences() scheduled.
clearReferencesCallback(s) == [s EXCEPT !.hoverCtl = [null |-> TRUE, timerId |-> 0]]

\* The callback of the hover timer: the tooltip of the hovered cell is shown.
hoverCallback(s) == Log(s, <<"showTooltip">>)

\* An event of `type` reaches the handler `fn`: through the host grid's
\* handler interface until the handler is disposed, or through a DOM
\* listener that is registered for that type.
Delivered(type, fn) ==
    IF ~disposed THEN TRUE ELSE \E l \in listeners : l[2] = type /\ l[3] = fn

Apply(name, s) ==
    /\ op' = name
    /\ disposed' = s.disposed
    /\ listeners' = s.listeners
    /\ grabbedCellData' = s.grabbed
    /\ dropCellData' = s.drop
    /\ resizing' = s.resizing
    /\ cursor' = s.cursor
    /\ focused' = s.focused
    /\ startCellData' = s.start
    /\ endCellData' = s.end
    /\ focusedCellData' = s.focusCell
    /\ timers' = s.timers
    /\ cellHoverControl' = s.hoverCtl
    /\ calls' = s.calls
    /\ raised' = s.raised

Init ==
    /\ disposed = FALSE
    /\ listeners = ConstructorListeners
    /\ timers = <<>>
    /\ cellHoverControl = [null |-> FALSE, timerId |-> 0]
    /\ grabbedCellData = NullCell
    /\ dropCellData = NullCell
    /\ resizing = FALSE
    /\ cursor = "auto"
    /\ focused = FALSE
    /\ startCellData = NullCell
    /\ endCellData = NullCell
    /\ focusedCellData = NullCell
    /\ op = "constructor"
    /\ calls = <<>>
    /\ raised = "none"

----------------------------------------------------------------------------
(* Actions *)

Buttons == {0, 1, 2}
ButtonIds == {0, 2}

\* What a mouse-up reads from the store and the cell manager.
UpStores ==
    { Store(FALSE, FALSE, FALSE, FALSE), Store(TRUE, FALSE, FALSE, FALSE),
      Store(TRUE, FALSE, FALSE, TRUE) }

DownEvents(points, shifts) ==
    { MouseEvent(p[1], p[2], b, k, t, sh, TRUE) :
        p \in points, b \in {1, 2}, k \in ButtonIds, t \in Targets, sh \in shifts }

MoveEvents(points) ==
    { MouseEvent(p[1], p[2], b, 0, "canvas", FALSE, TRUE) : p \in points, b \in Buttons }

UpEvents(points) ==
    { MouseEvent(p[1], p[2], 0, k, t, FALSE, TRUE) :
        p \in points, k \in ButtonIds, t \in Targets }

LeaveEvents ==
    { MouseEvent(RectLeft, RectTop, b, 0, "canvas", FALSE, inside) :
        b \in Buttons, inside \in BOOLEAN }

DoubleClickEvents(points) ==
    { MouseEvent(p[1], p[2], 0, 0, "canvas", FALSE, TRUE) : p \in points }

DoubleClickStores == { Store(FALSE, a, tag, FALSE) : a \in BOOLEAN, tag \in BOOLEAN }

WheelEvents ==
    { WheelEvent(dx, dy, mode) :
        dx \in (-MaxDelta)..MaxDelta, dy \in (-MaxDelta)..MaxDelta,
        mode \in 0..MaxDeltaMode }

KeyCodes == {Enter, Escape, ArrowDown, ArrowUp, ArrowLeft, ArrowRight, PageUp,
             PageDown, KeyH, Digit0, Digit9, 0}

KeyEvents == { KeyEvent(code, sh) : code \in KeyCodes, sh \in BOOLEAN }

\* One handler invocation each.
MouseDownEv(event) ==
    /\ Delivered("mousedown", "handleMouseDown")
    /\ Apply("onMouseDown", onMouseDown(Cur, event))

MouseMoveEv(event) ==
    /\ Delivered("mousemove", "handleMouseMove")
    /\ Apply("onMouseMove", onMouseMove(Cur, event))

MouseUpEv(event, store) ==
    /\ Delivered("mouseup", "none")
    /\ Apply("onMouseUp", onMouseUp(Cur, event, store))

MouseLeaveEv(event) ==
    /\ Delivered("mouseout", "handleMouseLeave")
    /\ Apply("onMouseLeave", onMouseLeave(Cur, event))

MouseDoubleClickEv(event, store) ==
    /\ Delivered("dblclick", "none")
    /\ Apply("onMouseDoubleClick", onMouseDoubleClick(Cur, event, store))

WheelEv(event) ==
    /\ Delivered("wheel", "none")
    /\ Apply("onWheel", onWheel(Cur, event))

KeyDownEv(event) ==
    /\ Delivered("keydown", "none")
    /\ Apply("onKeyDown", onKeyDown(Cur, event))

MouseDown(points, shifts) == \E e \in DownEvents(points, shifts) : MouseDownEv(e)

MouseMove(points) == \E e \in MoveEvents(points) : MouseMoveEv(e)

MouseUp(points) == \E e \in UpEvents(points), st \in UpStores : MouseUpEv(e, st)

MouseLeave == \E e \in LeaveEvents : MouseLeaveEv(e)

MouseDoubleClick(points) ==
    \E e \in DoubleClickEvents(points), st \in DoubleClickStores :
        MouseDoubleClickEv(e, st)

Wheel == \E e \in WheelEvents : WheelEv(e)

KeyDown == \E e \in KeyEvents : KeyDownEv(e)

Dispose == Apply("dispose", dispose(Cur))

\* The delay of the hover timer runs out: its callback enters the task queue
\* behind the callbacks that wait there.
TimerExpires ==
    /\ \E i \in 1..Len(timers) :
         /\ timers[i] = "hover"
         /\ timers' = Append(SubSeq(timers, 1, i - 1)
                               \o SubSeq(timers, i + 1, Len(timers)), "hoverDue")
    /\ UNCHANGED <<disposed, listeners, cellHoverControl, grabbedCellData,
                   dropCellData, resizing, cursor, focused, startCellData,
                   endCellData, focusedCellData, op, calls, raised>>

\* The first callback of the task queue runs.
TimerFires ==
    /\ \E i \in 1..Len(timers) :
         /\ IsDue(timers[i])
         /\ \A j \in 1..(i - 1) : ~IsDue(timers[j])
         /\ LET kind == timers[i]
                s == [Cur EXCEPT !.timers = SubSeq(timers, 1, i - 1)
                                             \o SubSeq(timers, i + 1, Len(timers))]
            IN  IF kind = "hoverDue"
                THEN Apply("hoverCallback", hoverCallback(s))
                ELSE Apply("clearReferencesCallback", clearReferencesCallback(s))

----------------------------------------------------------------------------
(* Specifications *)

\* Pointer gestures on the header row, the border of the viewport and one
\* body cell.
GesturePoints ==
    HeaderPoints \cup BorderPoints
    \cup { <<RectLeft + ColumnWidth, RectTop + HeaderHeight>> }

GestureDown == MouseDown(GesturePoints, {FALSE})
GestureMove == MouseMove(GesturePoints)
GestureUp == MouseUp(GesturePoints)

Next ==
    \/ GestureDown
    \/ GestureMove
    \/ GestureUp
    \/ MouseLeave
    \/ TimerExpires
    \/ TimerFires

Spec == Init /\ [][Next]_vars

\* Disposal: the pointer hovers over the body and leaves, the handler is
\* disposed, timers fire.
HoverPoints == BodyPoints \cup BorderPoints

HoverDown == MouseDown(HoverPoints, {FALSE})
HoverMove == MouseMove(HoverPoints)

NextDispose ==
    \/ HoverDown
    \/ HoverMove
    \/ MouseLeave
    \/ Dispose
    \/ TimerExpires
    \/ TimerFires

SpecDispose == Init /\ [][NextDispose]_vars

\* Clicks and double clicks anywhere in the viewport.
ClickPoints == HeaderPoints \cup BodyPoints \cup BorderPoints

ClickDown == MouseDown(BodyPoints, {FALSE})
ClickUp == MouseUp(BodyPoints)
DoubleClick == MouseDoubleClick(ClickPoints)

NextClick ==
    \/ ClickDown
    \/ ClickUp
    \/ DoubleClick

SpecClick == Init /\ [][NextClick]_vars

\* The keyboard, with clicks on body cells that focus and select.  Over the
\* body neither the button id, the target nor the store changes what a press
\* or a release does to focus and selection, so one value of each is used.
KeysDownEvents ==
    { MouseEvent(p[1], p[2], b, 0, "canvas", sh, TRUE) :
        p \in BodyPoints, b \in {1, 2}, sh \in BOOLEAN }

KeysUpEvents ==
    { MouseEvent(p[1], p[2], 0, 0, "canvas", FALSE, TRUE) : p \in BodyPoints }

KeysDown == \E e \in KeysDownEvents : MouseDownEv(e)
KeysUp == \E e \in KeysUpEvents : MouseUpEv(e, Store(FALSE, FALSE, FALSE, FALSE))

NextKeys ==
    \/ KeysDown
    \/ KeysUp
    \/ KeyDown

SpecKeys == Init /\ [][NextKeys]_vars

\* The wheel, with disposal.
NextWheel ==
    \/ Wheel
    \/ MouseLeave
    \/ Dispose
    \/ TimerFires

SpecWheel == Init /\ [][NextWheel]_vars

----------------------------------------------------------------------------
(* Claims about pointer gestures, checked under Spec *)

NumToggles(cs) == Len(SelectSeq(cs, LAMBDA c : c[1] = "toggleSort"))

\* C1: every onMouseMove whose buttons value is not 1, handled in any state
\* in which a column drag is in progress, leaves no column drag in progress.
C1_MoveWithoutPrimaryCancelsDrag ==
    \A e \in MoveEvents(GesturePoints) :
        (e.buttons # 1 /\ isDragging(Cur)) => ~isDragging(onMouseMove(Cur, e))

\* C2: once onMouseUp has been handled, no column drag is left in progress.
C2_MouseUpDropsDrag == op = "onMouseUp" => ~isDragging(Cur)

\* C3: a mouse-up toggles a column's sort only if the pointer is over the
\* header, the released button is the primary one and the target is the grid's
\* canvas; it toggles at most one column.
C3_SortToggleOnlyOnHeaderClick ==
    \A e \in UpEvents(GesturePoints), st \in UpStores :
        LET n == NumToggles(onMouseUp(Cur, e, st).calls)
        IN  /\ n <= 1
            /\ n = 1 => (isOverHeader(e) /\ e.button = 0 /\ e.target = "canvas")

C3_Witness == op = "onMouseUp" /\ NumToggles(calls) = 1

\* C16: while a resize is active onMouseMove does no gesture processing: it
\* neither cancels nor moves a column drag, does not re-evaluate the resize
\* mode or the cursor, emits no cell-hovered notification and no
\* selection-hover update, and leaves all controller state as it was.
C16_MoveWhileResizingIsInert ==
    resizing =>
        \A e \in MoveEvents(GesturePoints \cup BodyPoints) :
            onMouseMove(Cur, e) = Cur

C16_Witness ==
    /\ op = "onMouseMove"
    /\ resizing
    /\ isDragging(Cur)
    /\ ~IsNull(startCellData)
    /\ calls = <<>>

HeaderRegions == {"column-header", "corner-header"}

DragStarts(cs) == SelectSeq(cs, LAMBDA c : c[1] = "startDragging")

\* C18: onMouseDown starts a column drag only if buttons = 1, the press is a
\* header click (over the header, primary button, target is the canvas), the
\* pointer is inside the viewport, cell data exists, the cell is not column 0
\* of the corner header and the distance from the pointer to the column's
\* boundary (width - delta) is at least COLUMN_RESIZE_AREA_WIDTH; a press on
\* the corner header's first column never starts a drag.
C18_DragStartConditions ==
    \A e \in DownEvents(GesturePoints, {FALSE}) :
        LET out == onMouseDown(Cur, e)
            data == getCellData(e.clientX, e.clientY)
            started == DragStarts(out.calls) # <<>>
        IN  /\ started =>
                  /\ e.buttons = 1
                  /\ isOverHeader(e) /\ data.region \in HeaderRegions
                  /\ e.button = 0
                  /\ e.target = "canvas"
                  /\ ~isOutsideViewport(e)
                  /\ ~IsNull(data)
                  /\ ~(data.region = "corner-header" /\ data.column = 0)
                  /\ data.width - data.delta >= COLUMN_RESIZE_AREA_WIDTH
                  /\ out.grabbed = Ident(data)
            /\ ~started => out.grabbed = grabbedCellData
            /\ (data.region = "corner-header" /\ data.column = 0) => ~started

C18_Witness ==
    /\ op = "onMouseDown"
    /\ calls = << <<"startDragging", "column-header", 1>> >>
    /\ grabbedCellData.column = 1

SelectionStartDelegated(out) ==
    out.dispatched = <<"cellSelectionManager.handleMouseDown">>

\* What C19 says of a resize press and of a press with buttons # 1.
ResizePressAndOtherButtons(e, out) ==
    /\ (e.buttons = 1 /\ shouldResizeDataGrid(e) /\ ~isHeaderClicked(e)) =>
          /\ out.resizing
          /\ out.dispatched = <<>>
          /\ out.start = startCellData /\ out.end = endCellData
          /\ DragStarts(out.calls) = <<>>
          /\ out.grabbed = grabbedCellData /\ out.drop = dropCellData
    /\ e.buttons # 1 => out = Cur

\* C19: on onMouseDown with the primary button, a press within a
\* resize-eligible boundary that is not a header click enters resize mode and
\* starts neither a selection nor a column drag; every press that is not on a
\* header and does not start a resize delegates to the selection manager's
\* selection start; a press with buttons # 1 changes no state at all.
C19_PressResizeOrSelect ==
    \A e \in DownEvents(GesturePoints, {FALSE}) :
        LET out == onMouseDown(Cur, e)
        IN  /\ ResizePressAndOtherButtons(e, out)
            /\ (e.buttons = 1 /\ ~isOverHeader(e) /\ ~shouldResizeDataGrid(e)) =>
                  SelectionStartDelegated(out)

\* C19 as amended: ... every press inside the viewport that is not on a
\* header and does not start a resize delegates to the selection manager's
\* selection start, and a press outside the viewport that starts no resize
\* delegates nothing.
C19_PressResizeOrSelectInViewport ==
    \A e \in DownEvents(GesturePoints, {FALSE}) :
        LET out == onMouseDown(Cur, e)
        IN  /\ ResizePressAndOtherButtons(e, out)
            /\ (e.buttons = 1 /\ ~isOverHeader(e) /\ ~shouldResizeDataGrid(e)) =>
                  IF isOutsideViewport(e)
                  THEN /\ out.dispatched = <<>>
                       /\ out = [Cur EXCEPT !.focused = TRUE]
                  ELSE /\ SelectionStartDelegated(out)
                       /\ out.start = Ident(getCellData(e.clientX, e.clientY))

C19_Witness ==
    /\ op = "onMouseDown"
    /\ resizing
    /\ focused
    /\ IsNull(startCellData)
    /\ ~isDragging(Cur)

\* C23: in every state reached by onMouseDown, onMouseMove, onMouseUp and
\* onMouseLeave events, also with a second mouse-down before the first press
\* is released, a resize and a column drag are never in progress together, so
\* that the early returns of onMouseMove and onMouseUp while resizing never
\* skip the cancellation or the drop of a live column drag.
C23_ResizeExcludesDrag ==
    /\ ~(isResizing(Cur) /\ isDragging(Cur))
    /\ \A e \in MoveEvents(GesturePoints) :
          (isDragging(Cur) /\ e.buttons # 1) => ~isDragging(onMouseMove(Cur, e))
    /\ \A e \in UpEvents(GesturePoints), st \in UpStores :
          ~isDragging(onMouseUp(Cur, e, st))

----------------------------------------------------------------------------
(* Claims about disposal, checked under SpecDispose *)

\* C4: after dispose() none of the listeners the constructor registered is
\* still registered, so no DOM event reaches onMouseMove, onMouseLeave or
\* onMouseDown after disposal.
C4_NoListenerAfterDispose ==
    disposed =>
        /\ listeners \cap ConstructorListeners = {}
        /\ op \notin {"onMouseMove", "onMouseLeave", "onMouseDown"}

\* C5: dispose() is idempotent: a repeated call does not throw, removes no
\* listener, schedules nothing and leaves every piece of state as it was;
\* isDisposed is false until the first call and true ever after.
C5_DisposeIdempotent ==
    [][/\ op = "constructor" => ~disposed
       /\ disposed => disposed'
       /\ (~disposed /\ disposed') => op' = "dispose"
       /\ op' = "dispose" => (disposed' /\ raised' = "none")
       /\ disposed => dispose(Cur) = Cur]_vars

C5_Witness == op = "dispose" /\ disposed /\ cellHoverControl.null

\* C6: a pending hover timer is cancelled by an onMouseLeave that is not
\* gated out and by dispose(): the callback of a hover timer that was pending
\* when dispose() was called never fires after dispose() has returned.
C6_HoverTimerCancelled ==
    /\ \A e \in LeaveEvents :
         (~isNodeInsideGrid(e) /\ e.buttons = 0) =>
             \A i \in 1..Len(onMouseLeave(Cur, e).timers) :
                 TimerOf(onMouseLeave(Cur, e).timers[i]) # "hover"
    /\ disposed => op # "hoverCallback"

\* C17: onMouseLeave does nothing when the pointer is still inside the grid
\* or a button is held; otherwise it cancels the pending hover timer, hides
\* the tooltips, emits cell-hovered with null data, resets the cursor style to
\* auto, cancels any column drag and removes the grid focus, so that
\* afterwards no drag is in progress and the grid is unfocused.
C17_MouseLeaveResetsGestures ==
    Delivered("mouseout", "handleMouseLeave") =>
        \A e \in LeaveEvents :
            LET out == onMouseLeave(Cur, e)
            IN  IF isNodeInsideGrid(e) \/ e.buttons # 0
                THEN out = Cur
                ELSE /\ out.raised = "none"
                     /\ \A i \in 1..Len(out.timers) :
                            TimerOf(out.timers[i]) # "hover"
                     /\ out.calls =
                            << <<"hideTooltips">>, <<"cellHovered", "null">> >>
                     /\ out.cursor = "auto"
                     /\ ~isDragging(out)
                     /\ ~out.focused

Deferred(ts) == SelectSeq(ts, LAMBDA t : t = "clearReferences")

\* C21: dispose() does not null cellHoverControl synchronously: right after
\* the first dispose() cellHoverControl is still non-null and isDisposed is
\* true; cellHoverControl becomes null only when the deferred callback runs,
\* and that callback runs after every callback that was in the task queue
\* before dispose() was called; over any number of dispose() calls exactly
\* one deferred callback is scheduled.
C21_DeferredNulling ==
    [][/\ (~disposed /\ disposed') =>
             /\ op' = "dispose"
             /\ ~cellHoverControl'.null
             /\ timers' = Append(timers, "clearReferences")
       /\ op' = "dispose" => cellHoverControl' = cellHoverControl
       /\ Len(Deferred(timers')) > Len(Deferred(timers)) => ~disposed
       /\ Len(Deferred(timers)) <= 1
       /\ (~cellHoverControl.null /\ cellHoverControl'.null) =>
             /\ op' = "clearReferencesCallback"
             /\ disposed
             /\ \E i \in 1..Len(timers) :
                    /\ timers[i] = "clearReferences"
                    /\ \A j \in 1..(i - 1) : ~IsDue(timers[j])
             /\ Deferred(timers') = <<>>]_vars

C21_Witness ==
    /\ op = "dispose"
    /\ disposed
    /\ ~cellHoverControl.null
    /\ timers = <<"hoverDue", "clearReferences">>

\* C22: after dispose() and after the deferred nulling of cellHoverControl
\* no handler invocation raises an error; in particular an onMouseLeave that
\* reaches the handler with the pointer outside the grid and no button held
\* completes without dereferencing the nulled cellHoverControl.
C22_NoErrorAfterNulling ==
    /\ (disposed /\ cellHoverControl.null) => raised = "none"
    /\ (disposed /\ cellHoverControl.null
            /\ Delivered("mouseout", "handleMouseLeave")) =>
          \A e \in LeaveEvents : onMouseLeave(Cur, e).raised = "none"

----------------------------------------------------------------------------
(* Claim about double clicks, checked under SpecClick *)

\* C7: a double click over a non-index body cell, with both the
\* has-double-click-action and the double-click-tag flags set, emits exactly
\* two messages on the comm channel: the DoubleClickMessage, then the
\* ActionDetailsMessage tagged DOUBLE_CLICK, both with the logical index of
\* the rendered row and the column of the cell.
C7_DoubleClickEmitsTwoMessages ==
    \A e \in DoubleClickEvents(ClickPoints) :
        LET data == getCellData(e.clientX, e.clientY)
            out == onMouseDoubleClick(Cur, e, Store(FALSE, TRUE, TRUE, FALSE))
        IN  (data.region = "body" /\ data.type # "index") =>
                /\ out.raised = "none"
                /\ out.calls =
                     << <<"commSignal", "DoubleClickMessage",
                          rowManagerRows[data.row].index, data.column>>,
                        <<"commSignal", "ActionDetailsMessage", "DOUBLE_CLICK",
                          rowManagerRows[data.row].index, data.column>> >>

C7_Witness ==
    /\ op = "onMouseDoubleClick"
    /\ Len(calls) = 2
    /\ calls[1] = <<"commSignal", "DoubleClickMessage", rowManagerRows[0].index, 1>>
    /\ calls[2] = <<"commSignal", "ActionDetailsMessage", "DOUBLE_CLICK",
                    rowManagerRows[0].index, 1>>

----------------------------------------------------------------------------
(* Claim about the keyboard, checked under SpecKeys *)

ShiftArrowDown == KeyEvent(ArrowDown, TRUE)

\* C8: Shift+ArrowDown with a focused cell and no selection anchor leaves the
\* anchor unset and sets the selection end to the cell that is focused after
\* the navigation step.
C8_ShiftArrowDownExtendsToNewFocus ==
    (~IsNull(focusedCellData) /\ IsNull(startCellData)) =>
        LET out == onKeyDown(Cur, ShiftArrowDown)
        IN  /\ IsNull(out.start)
            /\ out.focusCell = setFocusedCellByNavigationKey(Cur, ArrowDown).focusCell
            /\ out.end = out.focusCell

C8_Witness ==
    /\ op = "onKeyDown"
    /\ calls = << <<"stopPropagation">>, <<"preventDefault">>,
                  <<"setFocusedCellByNavigationKey", ArrowDown>>, <<"setEndCell">> >>
    /\ IsNull(startCellData)
    /\ focusedCellData.region = "body"
    /\ focusedCellData.row = 1
    /\ endCellData = focusedCellData

\* C11: onKeyDown with an unrecognized key code changes nothing and calls
\* neither stopPropagation nor preventDefault; with a recognized code it calls
\* stopPropagation and preventDefault first, also when no handler acts on the
\* code, and then invokes the Enter, highlighter, numeric precision and
\* navigation handlers in that order.
C11_KeyDownConsumesRecognizedKeys ==
    \A e \in KeyEvents :
        LET out == onKeyDown(Cur, e)
        IN  IF e.code \notin KEYBOARD_KEYS
            THEN out = Cur
            ELSE /\ Len(out.calls) >= 2
                 /\ out.calls[1] = <<"stopPropagation">>
                 /\ out.calls[2] = <<"preventDefault">>
                 /\ \A i \in 3..Len(out.calls) :
                        out.calls[i][1] \notin {"stopPropagation", "preventDefault"}
                 /\ out.dispatched =
                        <<"handleEnterKeyDown", "handleHighlighterKeyDown",
                          "handleNumKeyDown", "handleNavigationKeyDown">>
                 /\ e.code = Escape =>
                        out = [Cur EXCEPT !.calls = out.calls,
                                          !.dispatched = out.dispatched]

C11_Witness ==
    /\ op = "onKeyDown"
    /\ ~IsNull(focusedCellData)
    /\ calls = << <<"stopPropagation">>, <<"preventDefault">> >>

PrecisionCalls(cs) ==
    SelectSeq(cs, LAMBDA c : c[1] \in {"setDataTypePrecision",
                                        "setColumnsDataTypePrecission"})

\* C12: on a digit key, with shift held the precision is set on the focused
\* column only and on no other column, also when no cell is focused; without
\* shift it is set on all columns.
C12_DigitKeyPrecisionScope ==
    \A e \in KeyEvents :
        e.code \in Digit0..Digit9 =>
            LET prec == PrecisionCalls(onKeyDown(Cur, e).calls)
                number == e.code - Digit0
            IN  IF e.shiftKey
                THEN IF IsNull(focusedCellData)
                     THEN prec = <<>>
                     ELSE prec = << <<"setDataTypePrecision",
                                      takeColumnByCell(focusedCellData), number>> >>
                ELSE prec = << <<"setColumnsDataTypePrecission", number>> >>

\* C13: in every state reached by key-down and pointer events, no selection
\* end cell is set while the selection anchor is unset.
C13_NoEndWithoutAnchor == IsNull(startCellData) => IsNull(endCellData)

\* C14: Enter with a focused cell sets the anchor to the focused cell when
\* shift is not held or no anchor exists, leaves the anchor as it is when shift
\* is held and an anchor exists, and in both cases performs the cell
\* interaction on the focused cell; Enter without a focused cell changes
\* neither the anchor nor the selection.
C14_EnterAnchorsAndInteracts ==
    \A sh \in BOOLEAN :
        LET out == onKeyDown(Cur, KeyEvent(Enter, sh))
        IN  IF IsNull(focusedCellData)
            THEN /\ out.start = startCellData
                 /\ out.end = endCellData
                 /\ out.calls = << <<"stopPropagation">>, <<"preventDefault">> >>
            ELSE /\ out.start = IF ~sh \/ IsNull(startCellData)
                                 THEN focusedCellData
                                 ELSE startCellData
                 /\ out.calls[Len(out.calls)] =
                        <<"handleCellInteraction", focusedCellData.row,
                          focusedCellData.column>>
                 /\ out.end = focusedCellData
                 /\ out.focusCell = focusedCellData

C14_Witness ==
    /\ op = "onKeyDown"
    /\ calls = << <<"stopPropagation">>, <<"preventDefault">>,
                  <<"handleCellInteraction", focusedCellData.row,
                    focusedCellData.column>> >>
    /\ ~IsNull(startCellData)
    /\ startCellData # focusedCellData
    /\ endCellData = focusedCellData

NavigationKeys == {ArrowLeft, ArrowRight, ArrowDown, ArrowUp, PageUp, PageDown}

PageScrolls(cs) == SelectSeq(cs, LAMBDA c : c[1] = "scrollByPage")

\* C15: on a navigation key with a focused cell the focus moves by the focus
\* manager's navigation rule and the viewport is not scrolled by page; with no
\* focused cell PageUp and PageDown scroll by exactly one page (up, down) and
\* an arrow key changes neither focus, scroll position, anchor nor selection
\* end, with or without shift.
C15_NavigationKeys ==
    \A e \in KeyEvents :
        e.code \in NavigationKeys =>
            LET out == onKeyDown(Cur, e)
            IN  IF ~IsNull(focusedCellData)
                THEN /\ out.focusCell =
                            setFocusedCellByNavigationKey(Cur, e.code).focusCell
                     /\ PageScrolls(out.calls) = <<>>
                ELSE IF e.code \in {PageUp, PageDown}
                THEN PageScrolls(out.calls) =
                        << <<"scrollByPage",
                             IF e.code = PageUp THEN "up" ELSE "down">> >>
                ELSE /\ out.focusCell = focusedCellData
                     /\ PageScrolls(out.calls) = <<>>
                     /\ out.start = startCellData
                     /\ out.end = endCellData

----------------------------------------------------------------------------
(* Claims about the wheel, checked under SpecWheel *)

Factor(mode, line, page) == IF mode = 0 THEN 1 ELSE IF mode = 1 THEN line ELSE page

\* C9: for a wheel event with deltaMode 0, 1 or 2, onWheel calls scrollBy
\* exactly once, with the deltas unchanged in pixel mode, multiplied by the
\* default column width and row height in line mode, and by the page width
\* and height in page mode.
C9_WheelScrollsByConvertedDelta ==
    \A e \in WheelEvents :
        e.deltaMode \in {0, 1, 2} =>
            /\ onWheel(Cur, e).raised = "none"
            /\ onWheel(Cur, e).calls =
                 << <<"scrollBy",
                      e.deltaX * Factor(e.deltaMode, ColumnWidth, PageWidth),
                      e.deltaY * Factor(e.deltaMode, RowHeight, PageHeight)>> >>

C9_Witness ==
    /\ op = "onWheel"
    /\ raised = "none"
    /\ calls = << <<"scrollBy", 1 * ColumnWidth, 2 * RowHeight>> >>

\* C10: for a wheel event whose deltaMode is not 0, 1 or 2, onWheel raises
\* 'unreachable' and does not scroll; no other handler outcome is this error.
C10_UnknownDeltaModeIsFatal ==
    /\ \A e \in WheelEvents :
         /\ e.deltaMode \notin {0, 1, 2} =>
              (onWheel(Cur, e).raised = "unreachable" /\ onWheel(Cur, e).calls = <<>>)
         /\ e.deltaMode \in {0, 1, 2} => onWheel(Cur, e).raised # "unreachable"
    /\ raised = "unreachable" => op = "onWheel"
    /\ \A e \in LeaveEvents : onMouseLeave(Cur, e).raised # "unreachable"
    /\ \A e \in KeyEvents : onKeyDown(Cur, e).raised # "unreachable"
    /\ \A e \in DoubleClickEvents(ClickPoints), st \in DoubleClickStores :
         onMouseDoubleClick(Cur, e, st).raised # "unreachable"
    /\ \A e \in DownEvents(ClickPoints, BOOLEAN) : onMouseDown(Cur, e).raised # "unreachable"
    /\ \A e \in MoveEvents(ClickPoints) : onMouseMove(Cur, e).raised # "unreachable"
    /\ \A e \in UpEvents(ClickPoints), st \in UpStores :
         onMouseUp(Cur, e, st).raised # "unreachable"
    /\ dispose(Cur).raised # "unreachable"

C10_Witness == op = "onWheel" /\ raised = "unreachable" /\ calls = <<>>

====
